---- MODULE Spec2Model ----
(***************************************************************************)
(* A model of .github/scripts/auto-backport.py: the backport pipeline      *)
(* (main, backport, create_pull_request, update_backport_label) together   *)
(* with the pure helpers sort_backport_labels and get_pr_commits.          *)
(*                                                                         *)
(* Strings that the script parses are sequences of tokens: a label is      *)
(* <<"backport/", "5", ".", "1", "0">>, its done variant has the token     *)
(* "-done" appended, a commit message is a sequence of characters.         *)
(***************************************************************************)
EXTENDS Integers, Sequences, FiniteSets, TLC

\* ------------------------------------------------------------------------
\* Bounds of the model
\* ------------------------------------------------------------------------
MaxEvents == 2      \* failed calls and cherry-pick conflicts over one history

\* ------------------------------------------------------------------------
\* Small sequence helpers
\* ------------------------------------------------------------------------
Range(s) == {s[j] : j \in 1..Len(s)}

NoDup(s) == \A a, b \in 1..Len(s) : a # b => s[a] # s[b]

IsPrefix(p, s) == Len(p) <= Len(s) /\ \A j \in 1..Len(p) : p[j] = s[j]

RECURSIVE Reverse(_)
Reverse(s) == IF s = <<>> THEN <<>> ELSE Append(Reverse(Tail(s)), Head(s))

\* ------------------------------------------------------------------------
\* Labels and versions
\* ------------------------------------------------------------------------
Digits == {"0", "1", "2", "3", "4", "5", "6", "7", "8", "9"}

DigitVal(c) ==
  CASE c = "0" -> 0 [] c = "1" -> 1 [] c = "2" -> 2 [] c = "3" -> 3
    [] c = "4" -> 4 [] c = "5" -> 5 [] c = "6" -> 6 [] c = "7" -> 7
    [] c = "8" -> 8 [] c = "9" -> 9

promoted_label == <<"promoted-to-master">>

\* str.replace('backport/', with): every occurrence of the token is replaced
\* (with = <<>> removes it).
RECURSIVE replace_backport(_, _)
replace_backport(label, with) ==
  IF label = <<>> THEN <<>>
  ELSE (IF Head(label) = "backport/" THEN with ELSE <<Head(label)>>)
       \o replace_backport(Tail(label), with)

\* re.compile(r'backport/\d+\.\d+$').match(label)
backport_label_pattern(label) ==
  /\ Len(label) >= 4
  /\ label[1] = "backport/"
  /\ \E d \in 3..(Len(label) - 1) :
       /\ label[d] = "."
       /\ \A j \in 2..(d - 1) : label[j] \in Digits
       /\ \A j \in (d + 1)..Len(label) : label[j] \in Digits

\* int() of a run of decimal digits
RECURSIVE ParseInt(_)
ParseInt(s) ==
  IF s = <<>> THEN 0
  ELSE 10 * ParseInt(SubSeq(s, 1, Len(s) - 1)) + DigitVal(s[Len(s)])

\* packaging.version.parse on "<major>.<minor>": the release tuple
version_parse(s) ==
  LET d == CHOOSE j \in 1..Len(s) : s[j] = "."
  IN  <<ParseInt(SubSeq(s, 1, d - 1)), ParseInt(SubSeq(s, d + 1, Len(s)))>>

\* Version.__lt__: the release tuples compared component by component
VersionLess(a, b) == a[1] < b[1] \/ (a[1] = b[1] /\ a[2] < b[2])

\* Character codes, for the comparison of strings as Python compares them
RECURSIVE StrLess(_, _)
StrLess(a, b) ==
  IF b = <<>> THEN FALSE
  ELSE IF a = <<>> THEN TRUE
  ELSE LET code(c) == IF c = "." THEN -1 ELSE DigitVal(c)
       IN  IF code(Head(a)) # code(Head(b)) THEN code(Head(a)) < code(Head(b))
           ELSE StrLess(Tail(a), Tail(b))

\* sort_backport_labels.extract_version
extract_version(label) == version_parse(replace_backport(label, <<>>))

\* a faulty key: the version strings compared as strings
KeyLessLexicographic(a, b) ==
  StrLess(replace_backport(a, <<>>), replace_backport(b, <<>>))

\* the order of two labels under the sort key
KeyLess(a, b) == VersionLess(extract_version(a), extract_version(b))

\* sorted(..., key, reverse=True): stable, largest key first.  InsertDesc puts
\* x after every element that is not smaller than x.
RECURSIVE InsertDesc(_, _)
InsertDesc(x, s) ==
  IF s = <<>> THEN <<x>>
  ELSE IF KeyLess(Head(s), x) THEN <<x>> \o s
  ELSE <<Head(s)>> \o InsertDesc(x, Tail(s))

RECURSIVE sort_backport_labels(_)
sort_backport_labels(backport_labels) ==
  IF backport_labels = <<>> THEN <<>>
  ELSE InsertDesc(backport_labels[Len(backport_labels)],
                  sort_backport_labels(SubSeq(backport_labels, 1, Len(backport_labels) - 1)))

\* ------------------------------------------------------------------------
\* Commit Resolver: get_pr_commits
\* ------------------------------------------------------------------------
\* A commit is [sha, message]; a message is a sequence of characters, "\n"
\* ends a line.  None is 0 where an identifier is expected.
None == 0

\* message.splitlines()[0]
RECURSIVE FirstLine(_)
FirstLine(message) ==
  IF message = <<>> \/ Head(message) = "\n" THEN <<>>
  ELSE <<Head(message)>> \o FirstLine(Tail(message))

\* str.startswith
startswith(message, title) == IsPrefix(title, message)

\* repo.compare(start_commit, stable_branch).commits: the commits of the
\* branch after start_commit, oldest first; repo.get_commits(sha=stable_branch):
\* the whole history, newest first.  start_commit is a position in the
\* history, -1 when no start_commit is given.
promoted_window(history, start_commit) ==
  IF start_commit >= 0 THEN SubSeq(history, start_commit + 1, Len(history))
  ELSE Reverse(history)

RECURSIVE MatchingShas(_, _)
MatchingShas(title, promoted_commits) ==
  IF promoted_commits = <<>> THEN <<>>
  ELSE (IF startswith(Head(promoted_commits).message, title)
          THEN <<Head(promoted_commits).sha>> ELSE <<>>)
       \o MatchingShas(title, Tail(promoted_commits))

RECURSIVE ResolveByTitle(_, _)
ResolveByTitle(pr_commits, promoted_commits) ==
  IF pr_commits = <<>> THEN <<>>
  ELSE MatchingShas(FirstLine(Head(pr_commits).message), promoted_commits)
       \o ResolveByTitle(Tail(pr_commits), promoted_commits)

RECURSIVE ClosedEventCommits(_)
ClosedEventCommits(events) ==
  IF events = <<>> THEN <<>>
  ELSE (IF Head(events).event = "closed" THEN <<Head(events).commit_id>> ELSE <<>>)
       \o ClosedEventCommits(Tail(events))

\* a faulty get_pr_commits: the merge commit is not told from a single commit
get_pr_commits_by_title(pr, history, start_commit) ==
  IF pr.merged
    THEN ResolveByTitle(pr.commits, promoted_window(history, start_commit))
    ELSE IF pr.state = "closed"
           THEN ClosedEventCommits(pr.events)
           ELSE <<>>

\* get_pr_commits, lines 87-114
get_pr_commits(pr, history, start_commit) ==
  IF pr.merged
    THEN IF pr.parents > 1
           THEN <<pr.merge_commit_sha>>
           ELSE ResolveByTitle(pr.commits, promoted_window(history, start_commit))
    ELSE IF pr.state = "closed"
           THEN ClosedEventCommits(pr.events)
           ELSE <<>>

\* ------------------------------------------------------------------------
\* State
\* ------------------------------------------------------------------------
VARIABLES
  args,                   \* the command line: commits, pull_request, label, start_commit
  change,                 \* the Change (pull request number 1) as the platform holds it
  history,                \* the commits of the stable branch, oldest first
  original_labels,        \* the labels of the Change when the script is first invoked
  labels,                 \* platform: pull request number -> list of labels
  pulls,                  \* platform: the review requests created by the script
  fork,                   \* platform: the branches of the bot-owned fork
  next_sha,               \* the identifier of the next commit git creates
  pc,                     \* position of the script
  run,                    \* number of the current invocation of the script
  closed_prs, p,          \* main: the Changes to process, and the loop position
  sorted_backport_labels, i, commits, previous_backport_pr,   \* main: per Change
  backport_commits, backport_pr,                              \* main: per Target
  workdirs,               \* backport: temporary directories that exist
  picked, k, is_draft,    \* backport: commits on the new branch, loop position, flag
  faults, conflicts,      \* failures and conflicts so far
  log                     \* one record per invocation of backport()

vars == <<args, change, history, original_labels, labels, pulls, fork, next_sha, pc, run,
          closed_prs, p, sorted_backport_labels, i, commits, previous_backport_pr,
          backport_commits, backport_pr, workdirs, picked, k, is_draft,
          faults, conflicts, log>>

inputs == <<args, change, history, original_labels>>
platform == <<labels, pulls, fork>>
main_locals == <<closed_prs, p, sorted_backport_labels, i, commits, previous_backport_pr>>
backport_locals == <<workdirs, picked, k, is_draft>>

\* ------------------------------------------------------------------------
\* Inputs
\* ------------------------------------------------------------------------
V510 == <<"5", ".", "1", "0">>
V54 == <<"5", ".", "4">>
V52 == <<"5", ".", "2">>
V101 == <<"1", "0", ".", "1">>
V92 == <<"9", ".", "2">>
Versions == {V510, V54, V52, V101, V92}

BackportLabel(v) == <<"backport/">> \o v
BackportLabels == {BackportLabel(v) : v \in Versions}

\* the lists of backport labels the Change of a pipeline run carries, in the
\* order the platform lists them
BackportLabelLists ==
  { <<>>,
    <<BackportLabel(V54)>>,
    <<BackportLabel(V52), BackportLabel(V510)>>,
    <<BackportLabel(V92), BackportLabel(V101)>>,
    <<BackportLabel(V52), BackportLabel(V510), BackportLabel(V54)>> }

Commit(sha, message) == [sha |-> sha, message |-> message]

PullRequest(merged, state, parents, pr_commits, events) ==
  [number |-> 1, title |-> "title", merged |-> merged, state |-> state,
   merge_commit_sha |-> 9, parents |-> parents, commits |-> pr_commits,
   events |-> events]

\* The stable branch of the pipeline runs: three promoted commits.
MainHistory ==
  <<Commit(1, <<"a", "a">>), Commit(2, <<"a", "b", "\n", "b">>), Commit(3, <<"b">>)>>

\* The Changes of the pipeline runs: merged with a merge commit; merged without
\* one, two commits with the titles "ab" and "b"; merged without one, the titles
\* "a" and "ab"; still open; closed without a merge.
MainChanges ==
  { PullRequest(TRUE, "closed", 2, <<Commit(11, <<"a", "b">>), Commit(12, <<"b">>)>>, <<>>),
    PullRequest(TRUE, "closed", 1, <<Commit(11, <<"a", "b">>), Commit(12, <<"b">>)>>, <<>>),
    PullRequest(TRUE, "closed", 1, <<Commit(11, <<"a">>), Commit(12, <<"a", "b">>)>>, <<>>),
    PullRequest(FALSE, "open", 1, <<Commit(11, <<"a", "b">>)>>, <<>>),
    PullRequest(FALSE, "closed", 1, <<Commit(11, <<"a", "b">>)>>,
                <<[event |-> "closed", commit_id |-> 7]>>) }

\* The command lines: --commits with a range whose commits belong to the Change
\* (once or twice), or --pull-request 1 with --label (<<>>: an empty --label).
\* args.commits lists, per commit of the range, the numbers of its pull requests.
MainArgs ==
  {[commits |-> c, pull_request |-> None, label |-> <<>>, start_commit |-> 0] :
      c \in {<< <<1>> >>, << <<1>>, <<1>> >>}}
  \cup
  {[commits |-> <<>>, pull_request |-> 1, label |-> l, start_commit |-> 0] :
      l \in {BackportLabel(V54), <<>>}}

\* ------------------------------------------------------------------------
\* Platform
\* ------------------------------------------------------------------------
new_branch_name(pr, version) == [number |-> pr.number, to |-> version]

HasBranch(name) == \E b \in fork : b.name = name
BranchCommits(name) == (CHOOSE b \in fork : b.name = name).commits

\* git push --force: the branch of the fork is created, or overwritten
ForcePush(name, branch_commits) ==
  {b \in fork : b.name # name} \cup {[name |-> name, commits |-> branch_commits]}

PullByNumber(n) == CHOOSE q \in pulls : q.number = n

\* the commits of a review request: those of its head branch
PullCommits(n) == BranchCommits(PullByNumber(n).head)

\* a review request for the same head and base exists
PullExists(head, base) == \E q \in pulls : q.head = head /\ q.base = base

NextPullNumber == 2 + Cardinality(pulls)

HasLabel(n, label) == label \in Range(labels[n])

RemoveLabel(ls, label) == SelectSeq(ls, LAMBDA x : x # label)
AddLabel(ls, label) == IF label \in Range(ls) THEN ls ELSE Append(ls, label)

\* ------------------------------------------------------------------------
\* The record of one invocation of backport()
\* ------------------------------------------------------------------------
LogEntry(label) ==
  [run |-> run, pos |-> p, i |-> i, label |-> label,
   previous |-> previous_backport_pr,   \* previous_backport_pr at the call
   input |-> backport_commits',         \* the CommitSet handed to backport()
   attempted |-> <<>>,                  \* the commits cherry-pick was run on
   conflicted |-> {},                   \* positions whose cherry-pick conflicted
   reached |-> "clone",                 \* the last step entered
   failed |-> "none",                   \* the git step that raised
   pushed |-> FALSE,                    \* the branch was pushed to the fork
   overwrote |-> FALSE,                 \* the push replaced an existing branch
   create_called |-> FALSE,             \* create_pull_request was called
   created |-> None,                    \* the review request the platform created
   exists |-> FALSE,                    \* the platform reported a duplicate
   is_draft |-> FALSE,                  \* the conflict flag of the invocation
   returned |-> FALSE, result |-> None, \* backport() returned, and what
   error_logged |-> FALSE,              \* main logged "Failed to create backport PR"
   tried |-> {},                        \* pull requests whose label update was tried
   updated |-> {},                      \* pull requests that got the done label
   finished |-> FALSE]                  \* main is through with the Target

Current == log[Len(log)]
Logged(fields) == [log EXCEPT ![Len(log)] = fields]

\* ------------------------------------------------------------------------
\* Init
\* ------------------------------------------------------------------------
InitLocals ==
  /\ pc = "start"
  /\ run = 1
  /\ closed_prs = <<>> /\ p = 1
  /\ sorted_backport_labels = <<>> /\ i = 0 /\ commits = <<>>
  /\ previous_backport_pr = None
  /\ backport_commits = <<>> /\ backport_pr = None
  /\ workdirs = 0 /\ picked = <<>> /\ k = 1 /\ is_draft = FALSE
  /\ faults = 0 /\ conflicts = 0
  /\ log = <<>>
  /\ pulls = {} /\ fork = {}
  /\ next_sha = 100

Init ==
  /\ args \in MainArgs
  /\ change \in MainChanges
  /\ history = MainHistory
  /\ \E promoted \in {<<>>, <<promoted_label>>}, bl \in BackportLabelLists :
       labels = [n \in {1} |-> promoted \o bl]
  /\ original_labels = labels[1]
  /\ InitLocals

\* ------------------------------------------------------------------------
\* main: selection of the Changes and the plan of each
\* ------------------------------------------------------------------------
RECURSIVE Flatten(_)
Flatten(ss) == IF ss = <<>> THEN <<>> ELSE Head(ss) \o Flatten(Tail(ss))

\* main, lines 204-213: closed_prs from --commits or --pull-request
main_start ==
  /\ pc = "start"
  /\ closed_prs' = IF args.pull_request # None THEN <<args.pull_request>>
                   ELSE Flatten(args.commits)
  /\ p' = 1
  /\ pc' = "next_pr"
  /\ UNCHANGED <<inputs, platform, next_sha, run, sorted_backport_labels, i, commits,
                 previous_backport_pr, backport_commits, backport_pr,
                 backport_locals, faults, conflicts, log>>

\* main, lines 216-223: the backport labels of a Change
select_backport_labels(pr_labels) ==
  IF args.pull_request # None /\ args.label # <<>>
    THEN <<args.label>>
    ELSE SelectSeq(pr_labels, backport_label_pattern)

\* a faulty skip_change: a Change without the promoted label is skipped in
\* either mode
skip_change_unpromoted_in_any_mode(pr_labels, backport_labels) ==
  \/ promoted_label \notin Range(pr_labels)
  \/ backport_labels = <<>>

\* main, lines 225-230: the Change is not processed
skip_change(pr_labels, backport_labels) ==
  \/ (promoted_label \notin Range(pr_labels) /\ args.pull_request = None)
  \/ backport_labels = <<>>

\* main, lines 215-240: the next Change of closed_prs, filtered, planned, resolved
main_next_pr ==
  /\ pc = "next_pr"
  /\ IF p > Len(closed_prs)
       THEN /\ pc' = "done"
            /\ UNCHANGED main_locals
       ELSE LET pr_labels == labels[closed_prs[p]]
                backport_labels == select_backport_labels(pr_labels)
            IN  IF skip_change(pr_labels, backport_labels)
                  THEN /\ p' = p + 1
                       /\ pc' = "next_pr"
                       /\ UNCHANGED <<closed_prs, sorted_backport_labels, i, commits,
                                      previous_backport_pr>>
                  ELSE /\ sorted_backport_labels' = sort_backport_labels(backport_labels)
                       /\ commits' = get_pr_commits(change, history, args.start_commit)
                       /\ previous_backport_pr' = None
                       /\ i' = 0
                       /\ pc' = "target"
                       /\ UNCHANGED <<closed_prs, p>>
  /\ UNCHANGED <<inputs, platform, next_sha, run, backport_commits, backport_pr,
                 backport_locals, faults, conflicts, log>>

\* get_commits_from_newer_release: the commits of the previous review request
get_commits_from_newer_release(previous) == PullCommits(previous)

\* a faulty chain_commits: every Target is built from the commits of the Change
chain_commits_from_original(idx, previous, original) == original

\* main, lines 246-250: the CommitSet of Target idx
chain_commits(idx, previous, original) ==
  IF idx > 0 /\ previous # None
    THEN get_commits_from_newer_release(previous)
    ELSE original

\* main, lines 241-253, and backport, line 122: the next Target of the Change;
\* backport() is entered and its temporary directory created
main_target ==
  /\ pc = "target"
  /\ IF i >= Len(sorted_backport_labels)
       THEN /\ p' = p + 1
            /\ pc' = "next_pr"
            /\ UNCHANGED <<backport_commits, backport_locals, log>>
       ELSE /\ backport_commits' = chain_commits(i, previous_backport_pr, commits)
            /\ workdirs' = workdirs + 1
            /\ picked' = <<>>
            /\ k' = 1
            /\ is_draft' = FALSE
            /\ log' = Append(log, LogEntry(sorted_backport_labels[i + 1]))
            /\ pc' = "clone"
            /\ p' = p
  /\ UNCHANGED <<inputs, platform, next_sha, run, closed_prs, sorted_backport_labels,
                 i, commits, previous_backport_pr, backport_pr, faults, conflicts>>

\* ------------------------------------------------------------------------
\* backport: the Replay Engine
\* ------------------------------------------------------------------------
\* a call can still fail, a cherry-pick can still conflict
CanFail == faults + conflicts < MaxEvents
CanConflict == faults + conflicts < MaxEvents
CanConflictAndFail == faults + conflicts + 2 <= MaxEvents

\* a faulty git_error: the error is swallowed, the invocation goes on to the
\* creation of the review request
git_error_swallowed(step) ==
  /\ faults' = faults + 1
  /\ pc' = "create"
  /\ log' = Logged([Current EXCEPT !.failed = step])
  /\ UNCHANGED <<workdirs, backport_pr>>

\* a faulty git_error: the temporary directory outlives the invocation
git_error_leaving_directory(step) ==
  /\ faults' = faults + 1
  /\ backport_pr' = None
  /\ pc' = "returned"
  /\ log' = Logged([Current EXCEPT !.failed = step, !.returned = TRUE])
  /\ UNCHANGED workdirs

\* backport, lines 139-141, and the exit of the with block of line 122: a
\* GitCommandError of `step` ends the invocation with None
git_error(step) ==
  /\ faults' = faults + 1
  /\ workdirs' = workdirs - 1
  /\ backport_pr' = None
  /\ pc' = "returned"
  /\ log' = Logged([Current EXCEPT !.failed = step, !.returned = TRUE])

\* backport, line 124: Repo.clone_from
backport_clone ==
  /\ pc = "clone"
  /\ \/ /\ pc' = "checkout"
        /\ log' = Logged([Current EXCEPT !.reached = "checkout"])
        /\ UNCHANGED <<faults, workdirs, backport_pr>>
     \/ /\ CanFail
        /\ git_error("clone")
  /\ UNCHANGED <<inputs, platform, next_sha, run, main_locals, backport_commits,
                 picked, k, is_draft, conflicts>>

\* backport, lines 125-126: git checkout -b, is_draft = False
backport_checkout ==
  /\ pc = "checkout"
  /\ \/ /\ pc' = "pick"
        /\ is_draft' = FALSE
        /\ log' = Logged([Current EXCEPT !.reached = "pick"])
        /\ UNCHANGED <<faults, workdirs, backport_pr>>
     \/ /\ CanFail
        /\ git_error("branch")
        /\ UNCHANGED is_draft
  /\ UNCHANGED <<inputs, platform, next_sha, run, main_locals, backport_commits,
                 picked, k, conflicts>>

\* a faulty conflict_flag: the flag is assigned anew at every commit
conflict_flag_of_last_commit(flag, conflicted) == conflicted

\* backport, lines 126 and 132: is_draft after a cherry-pick that conflicted
\* (or not)
conflict_flag(flag, conflicted) == flag \/ conflicted

\* backport, lines 127-134: one turn of the loop.  The cherry-pick applies, or
\* conflicts; after a conflict the tree is staged and cherry-pick --continue
\* completes the commit, or raises.
backport_cherry_pick ==
  /\ pc = "pick"
  /\ k <= Len(backport_commits)
  /\ LET commit == backport_commits[k]
         tried == [Current EXCEPT !.attempted = Append(@, commit)]
     IN  \/ /\ picked' = Append(picked, next_sha)
            /\ next_sha' = next_sha + 1
            /\ k' = k + 1
            /\ is_draft' = conflict_flag(is_draft, FALSE)
            /\ log' = Logged([tried EXCEPT !.is_draft = is_draft'])
            /\ UNCHANGED <<conflicts, faults, workdirs, backport_pr, pc>>
         \/ /\ CanConflict
            /\ conflicts' = conflicts + 1
            /\ is_draft' = conflict_flag(is_draft, TRUE)
            /\ picked' = Append(picked, next_sha)
            /\ next_sha' = next_sha + 1
            /\ k' = k + 1
            /\ log' = Logged([tried EXCEPT !.conflicted = @ \cup {k},
                                           !.is_draft = is_draft'])
            /\ UNCHANGED <<faults, workdirs, backport_pr, pc>>
         \/ /\ CanConflictAndFail
            /\ conflicts' = conflicts + 1
            /\ is_draft' = conflict_flag(is_draft, TRUE)
            /\ faults' = faults + 1
            /\ workdirs' = workdirs - 1
            /\ backport_pr' = None
            /\ pc' = "returned"
            /\ log' = Logged([tried EXCEPT !.conflicted = @ \cup {k},
                                           !.is_draft = is_draft',
                                           !.failed = "continue", !.returned = TRUE])
            /\ UNCHANGED <<picked, next_sha, k>>
  /\ UNCHANGED <<inputs, platform, run, main_locals, backport_commits>>

\* backport, line 135: git push --force to the fork, after the loop
backport_push ==
  /\ pc = "pick"
  /\ k > Len(backport_commits)
  /\ LET pr == change
         version == replace_backport(sorted_backport_labels[i + 1], <<>>)
         name == new_branch_name(pr, version)
     IN  \/ /\ fork' = ForcePush(name, picked)
            /\ pc' = "create"
            /\ log' = Logged([Current EXCEPT !.reached = "create", !.pushed = TRUE,
                                             !.overwrote = HasBranch(name)])
            /\ UNCHANGED <<faults, workdirs, backport_pr>>
         \/ /\ CanFail
            /\ git_error("push")
            /\ UNCHANGED fork
  /\ UNCHANGED <<inputs, labels, pulls, next_sha, run, main_locals, backport_commits,
                 picked, k, is_draft, conflicts>>

\* ------------------------------------------------------------------------
\* create_pull_request: the Outcome Publisher
\* ------------------------------------------------------------------------
\* a faulty labels_to_add: the loop over priority_labels does not stop at the
\* first label the parent carries
RECURSIVE WithForceOnCloud(_)
WithForceOnCloud(ls) ==
  IF ls = <<>> THEN <<>>
  ELSE << <<Head(ls)>>, <<"force_on_cloud">> >> \o WithForceOnCloud(Tail(ls))

labels_to_add_without_break(parent_pr_labels, order, draft) ==
  LET carried == SelectSeq(order, LAMBDA l : <<l>> \in Range(parent_pr_labels))
  IN  WithForceOnCloud(carried) \o (IF draft THEN << <<"conflicts">> >> ELSE <<>>)

\* a faulty labels_to_add: a draft gets no "conflicts" label
labels_to_add_without_conflicts(parent_pr_labels, order, draft) ==
  LET carried == SelectSeq(order, LAMBDA l : <<l>> \in Range(parent_pr_labels))
  IN  IF carried = <<>> THEN <<>>
      ELSE << <<Head(carried)>>, <<"force_on_cloud">> >>

\* create_pull_request, lines 54-68: the labels of the new review request.
\* `order` is the order in which the set priority_labels is iterated.
labels_to_add(parent_pr_labels, order, draft) ==
  LET carried == SelectSeq(order, LAMBDA l : <<l>> \in Range(parent_pr_labels))
      priority == IF carried = <<>> THEN <<>>
                  ELSE << <<Head(carried)>>, <<"force_on_cloud">> >>
  IN  priority \o (IF draft THEN << <<"conflicts">> >> ELSE <<>>)

\* the platform calls of create_pull_request that can raise, in their order
CreateSteps(draft, to_add) ==
  <<"create", "assign">> \o (IF draft THEN <<"comment">> ELSE <<>>)
                         \o (IF to_add # <<>> THEN <<"labels">> ELSE <<>>)

\* create_pull_request, lines 37-84, called at line 136, and the return of
\* backport at line 138.  `raised` is the call that raised ("none": no call).
backport_create_pull_request ==
  /\ pc = "create"
  /\ LET pr == change
         label == sorted_backport_labels[i + 1]
         version == replace_backport(label, <<>>)
         head == new_branch_name(pr, version)
         base == replace_backport(label, <<"next-">>)
         number == NextPullNumber
     IN  IF BranchCommits(head) = <<>>
           THEN \* the platform refuses a review request without commits: the
                \* error is logged, None is returned
                /\ backport_pr' = None
                /\ log' = Logged([Current EXCEPT !.create_called = TRUE, !.returned = TRUE])
                /\ UNCHANGED <<labels, pulls, faults>>
         ELSE IF PullExists(head, base)
           THEN \* 'A pull request already exists': a warning, None is returned
                /\ backport_pr' = None
                /\ log' = Logged([Current EXCEPT !.create_called = TRUE, !.exists = TRUE,
                                                 !.returned = TRUE])
                /\ UNCHANGED <<labels, pulls, faults>>
           ELSE \E order \in {<<"P0", "P1">>, <<"P1", "P0">>} :
                  LET to_add == labels_to_add(labels[pr.number], order, is_draft)
                      steps == CreateSteps(is_draft, to_add)
                  IN  \E raised \in {"none"} \cup (IF CanFail THEN Range(steps) ELSE {}) :
                        LET done(step) ==
                              \* the call `step` was made and did not raise
                              /\ step \in Range(steps)
                              /\ raised # step
                              /\ \/ raised = "none"
                                 \/ \E a, b \in 1..Len(steps) :
                                      a < b /\ steps[a] = step /\ steps[b] = raised
                        IN  /\ faults' = IF raised = "none" THEN faults ELSE faults + 1
                            /\ pulls' = IF done("create")
                                 THEN pulls \cup
                                      {[number |-> number, head |-> head, base |-> base,
                                        title |-> <<"[Backport ", version, "] ", pr.title>>,
                                        body |-> backport_commits, parent |-> pr.number,
                                        draft |-> is_draft,
                                        assigned |-> done("assign"),
                                        comment |-> done("comment")]}
                                 ELSE pulls
                            /\ labels' = IF done("create")
                                 THEN [n \in DOMAIN labels \cup {number} |->
                                         IF n = number
                                           THEN IF done("labels") THEN to_add ELSE <<>>
                                           ELSE labels[n]]
                                 ELSE labels
                            /\ backport_pr' = IF raised = "none" THEN number ELSE None
                            /\ log' = Logged([Current EXCEPT
                                 !.create_called = TRUE,
                                 !.created = IF done("create") THEN number ELSE None,
                                 !.returned = TRUE,
                                 !.result = IF raised = "none" THEN number ELSE None])
  /\ workdirs' = workdirs - 1
  /\ pc' = "returned"
  /\ UNCHANGED <<inputs, fork, next_sha, run, main_locals, backport_commits,
                 picked, k, is_draft, conflicts>>

\* ------------------------------------------------------------------------
\* update_backport_label, and the end of a Target in main
\* ------------------------------------------------------------------------
done_label(label) == Append(label, "-done")

\* What one turn of the loop of update_backport_label can do on pull request n.
\* The platform answers the removal of a label that the pull request does not
\* carry with an error (404), as it can any call.
UpdateOutcomes(n, label) ==
  IF ~HasLabel(n, label) THEN {"remove_raised"}
  ELSE {"updated"} \cup (IF CanFail THEN {"remove_raised", "add_raised"} ELSE {})

\* a faulty labels_after_update: the label is not removed
labels_after_update_keeping(ls, label, outcome) ==
  IF outcome = "updated" THEN AddLabel(ls, done_label(label)) ELSE ls

\* update_backport_label, lines 157-162: the labels of one pull request after
\* its turn of the loop
labels_after_update(ls, label, outcome) ==
  CASE outcome = "updated" -> AddLabel(RemoveLabel(ls, label), done_label(label))
    [] outcome = "remove_raised" -> ls
    [] outcome = "add_raised" -> RemoveLabel(ls, label)

\* a faulty update_turns: an error on the parent ends update_backport_label
update_turns_until_error(parent, backport, o1) ==
  IF o1 = "updated" THEN {parent, backport} ELSE {parent}

\* update_backport_label, lines 156-162: the pull requests whose turn of the
\* loop is taken, o1 being the outcome of the first turn; the try statement is
\* inside the loop
update_turns(parent, backport, o1) == {parent, backport}

\* an outcome that is a failure injected by the model (not the platform's 404)
Injected(n, label, outcome) == outcome # "updated" /\ HasLabel(n, label)

\* main, lines 255-263, with update_backport_label, lines 153-162
main_result ==
  /\ pc = "returned"
  /\ LET pr == change
         label == sorted_backport_labels[i + 1]
     IN  IF backport_pr # None
           THEN \E o1 \in UpdateOutcomes(pr.number, label),
                   o2 \in UpdateOutcomes(backport_pr, label) :
                  LET turns == update_turns(pr.number, backport_pr, o1)
                      cost == (IF Injected(pr.number, label, o1) THEN 1 ELSE 0)
                              + (IF backport_pr \in turns
                                      /\ Injected(backport_pr, label, o2) THEN 1 ELSE 0)
                  IN  /\ faults + conflicts + cost <= MaxEvents
                      /\ faults' = faults + cost
                      /\ labels' = [n \in DOMAIN labels |->
                           IF n = pr.number THEN labels_after_update(labels[n], label, o1)
                           ELSE IF n = backport_pr /\ n \in turns
                                  THEN labels_after_update(labels[n], label, o2)
                                  ELSE labels[n]]
                      /\ previous_backport_pr' = backport_pr
                      /\ log' = Logged([Current EXCEPT !.finished = TRUE,
                           !.tried = turns, !.updated =
                           (IF o1 = "updated" THEN {pr.number} ELSE {})
                           \cup (IF o2 = "updated" /\ backport_pr \in turns
                                   THEN {backport_pr} ELSE {})])
           ELSE /\ log' = Logged([Current EXCEPT !.finished = TRUE,
                                                 !.error_logged = TRUE])
                /\ UNCHANGED <<labels, previous_backport_pr, faults>>
  /\ i' = i + 1
  /\ pc' = "target"
  /\ UNCHANGED <<inputs, pulls, fork, next_sha, run, closed_prs, p,
                 sorted_backport_labels, commits, backport_commits, backport_pr,
                 backport_locals, conflicts>>

\* The script is invoked a second time, with the same command line, on the
\* platform state the first invocation left.
rerun ==
  /\ pc = "done"
  /\ run = 1
  /\ run' = run + 1
  /\ pc' = "start"
  /\ closed_prs' = <<>> /\ p' = 1
  /\ sorted_backport_labels' = <<>> /\ i' = 0 /\ commits' = <<>>
  /\ previous_backport_pr' = None
  /\ backport_commits' = <<>> /\ backport_pr' = None
  /\ picked' = <<>> /\ k' = 1 /\ is_draft' = FALSE
  /\ UNCHANGED <<inputs, platform, next_sha, workdirs, faults, conflicts, log>>

Next ==
  \/ main_start
  \/ main_next_pr
  \/ main_target
  \/ backport_clone
  \/ backport_checkout
  \/ backport_cherry_pick
  \/ backport_push
  \/ backport_create_pull_request
  \/ main_result
  \/ rerun

Spec == Init /\ [][Next]_vars

\* ------------------------------------------------------------------------
\* The pipeline on a Change that carries priority labels: one pass of
\* --pull-request 1 over the Targets 5.10 and 5.2
\* ------------------------------------------------------------------------
PriorityLabelLists ==
  { <<>>, << <<"P0">> >>, << <<"P1">> >>, << <<"P0">>, <<"P1">> >>,
    << <<"P1">>, <<"P0">> >> }

InitPriority ==
  /\ args = [commits |-> <<>>, pull_request |-> 1, label |-> <<>>, start_commit |-> 0]
  /\ change = PullRequest(TRUE, "closed", 2,
                          <<Commit(11, <<"a", "b">>), Commit(12, <<"b">>)>>, <<>>)
  /\ history = MainHistory
  /\ \E pl \in PriorityLabelLists :
       labels = [n \in {1} |->
                   <<promoted_label, BackportLabel(V52)>> \o pl \o <<BackportLabel(V510)>>]
  /\ original_labels = labels[1]
  /\ InitLocals

SpecPriority == InitPriority /\ [][Next]_vars

\* ------------------------------------------------------------------------
\* The Commit Resolver on its own: get_pr_commits applied to the Changes and
\* stable branches below
\* ------------------------------------------------------------------------
MaxPrCommits == 2       \* commits of a Change
MaxHistory == 3         \* commits of the stable branch
MaxEventsOfPr == 2      \* lifecycle events of a Change

Messages == { <<"a">>, <<"a", "b">>, <<"b">>, <<"a", "\n", "b">>, <<"a", "b", "\n", "a">> }

SeqsUpTo(S, n) == UNION {[1..m -> S] : m \in 0..n}

\* the commits of a Change, identified 11, 12, ...
ResolverPrCommits ==
  {[j \in 1..Len(ms) |-> Commit(10 + j, ms[j])] : ms \in SeqsUpTo(Messages, MaxPrCommits)}

\* the commits of the stable branch, identified 1, 2, ...
ResolverHistories ==
  {[j \in 1..Len(ms) |-> Commit(j, ms[j])] : ms \in SeqsUpTo(Messages, MaxHistory)}

ResolverEvents ==
  SeqsUpTo({[event |-> "closed", commit_id |-> 7], [event |-> "closed", commit_id |-> None],
            [event |-> "reopened", commit_id |-> None]}, MaxEventsOfPr)

ResolverChanges ==
  {PullRequest(TRUE, "closed", parents, cs, <<>>) :
      parents \in {1, 2}, cs \in ResolverPrCommits \ {<<>>}}
  \cup
  {PullRequest(FALSE, state, 1, <<Commit(11, <<"a">>)>>, es) :
      state \in {"open", "closed"}, es \in ResolverEvents}

\* s is t with elements left out
RECURSIVE IsSubsequence(_, _)
IsSubsequence(s, t) ==
  IF s = <<>> THEN TRUE
  ELSE IF t = <<>> THEN FALSE
  ELSE IF Head(s) = Head(t) THEN IsSubsequence(Tail(s), Tail(t))
  ELSE IsSubsequence(s, Tail(t))

MessagesOf(cs) == [j \in 1..Len(cs) |-> cs[j].message]

\* The commits of a Change that was merged without a merge commit are on the
\* stable branch, in their order, inside the promotion window.
Promoted(pr, hist, start_commit) ==
  (pr.merged /\ pr.parents = 1) =>
     IsSubsequence(MessagesOf(pr.commits),
                   MessagesOf(SubSeq(hist, (IF start_commit >= 0 THEN start_commit ELSE 0) + 1,
                                     Len(hist))))

InitResolve ==
  /\ change \in ResolverChanges
  /\ history \in ResolverHistories
  /\ \E start_commit \in -1..Len(history) :
       args = [commits |-> <<>>, pull_request |-> 1, label |-> <<>>,
               start_commit |-> start_commit]
  /\ Promoted(change, history, args.start_commit)
  /\ labels = [n \in {1} |-> <<>>]
  /\ original_labels = labels[1]
  /\ InitLocals

\* get_pr_commits is applied to the Change
resolve ==
  /\ pc = "start"
  /\ commits' = get_pr_commits(change, history, args.start_commit)
  /\ pc' = "resolved"
  /\ UNCHANGED <<inputs, platform, next_sha, run, closed_prs, p, sorted_backport_labels,
                 i, previous_backport_pr, backport_commits, backport_pr,
                 backport_locals, faults, conflicts, log>>

NextResolve == resolve

SpecResolve == InitResolve /\ [][NextResolve]_vars

\* ------------------------------------------------------------------------
\* Properties
\* ------------------------------------------------------------------------
\* the CommitSet the Commit Resolver returns for the Change
ResolvedCommitSet == get_pr_commits(change, history, args.start_commit)

\* two invocations of backport() for the same Change in the same pass of main
SamePass(a, b) == log[a].run = log[b].run /\ log[a].pos = log[b].pos

\* the invocation ended without a review request: a git step or the creation
\* of the review request failed
NoReviewRequest(e) ==
  /\ e.returned
  /\ e.created = None
  /\ (e.failed # "none" \/ (e.create_called /\ ~e.exists))

\* C1: when the backport for Target i-1 produced no review request, nothing
\* is replayed, pushed or requested for Target i (of a Change that has commits
\* to backport).
C1_SkipAfterFailedTarget ==
  \A a, b \in DOMAIN log :
    (SamePass(a, b) /\ log[b].i = log[a].i + 1 /\ NoReviewRequest(log[a])
       /\ ResolvedCommitSet # <<>>)
      => (log[b].attempted = <<>> /\ ~log[b].pushed /\ ~log[b].create_called)

\* C2: the CommitSet handed to backport() for Target 0 is the resolved
\* CommitSet of the Change; for Target i > 0 it is the list of commits of the
\* review request produced for Target i-1 (of a Change that has commits to
\* backport).
C2_ChainInput ==
  (pc = "clone" /\ ResolvedCommitSet # <<>>) =>
    IF Current.i = 0
      THEN Current.input = ResolvedCommitSet
      ELSE LET prev == log[Len(log) - 1]
           IN  /\ prev.created # None
               /\ Current.input = PullCommits(prev.created)

\* the invocation got past clone and branch creation
Branched(e) == e.reached \notin {"clone", "checkout"}

\* the invocation reached the push step
ReachedPush(e) == e.pushed \/ e.failed = "push"

\* C3 as stated: once clone and branch creation succeeded, every commit of the
\* set is attempted in order, the push step is reached, and the flag is set
\* exactly when a commit conflicted.
C3_NoEarlyAbort ==
  \A n \in DOMAIN log :
    (Branched(log[n]) /\ log[n].returned)
      => /\ log[n].attempted = log[n].input
         /\ ReachedPush(log[n])
         /\ (log[n].is_draft <=> log[n].conflicted # {})

\* C3 amended: the commits are attempted in the set's order and the flag is
\* set exactly when a commit conflicted; unless a cherry-pick --continue raised,
\* every commit is attempted and the push step reached; when one raised, the
\* invocation ended at that commit, which conflicted, without a push.
C3_NoEarlyAbortUnlessContinueFails ==
  \A n \in DOMAIN log :
    Branched(log[n]) =>
      /\ IsPrefix(log[n].attempted, log[n].input)
      /\ (log[n].is_draft <=> log[n].conflicted # {})
      /\ (log[n].returned /\ log[n].failed # "continue")
           => (log[n].attempted = log[n].input /\ ReachedPush(log[n]))
      /\ log[n].failed = "continue"
           => /\ Len(log[n].attempted) \in log[n].conflicted
              /\ ~log[n].pushed /\ ~log[n].create_called /\ log[n].result = None

\* C3 witness: a set of three commits of which one conflicted was pushed
C3_Witness ==
  \E n \in DOMAIN log :
    /\ Len(log[n].input) = 3 /\ log[n].attempted = log[n].input
    /\ Cardinality(log[n].conflicted) = 1 /\ 1 \in log[n].conflicted
    /\ log[n].pushed /\ log[n].is_draft

\* C4: when the resolved CommitSet is empty no branch is created or pushed, no
\* review request is created and no marker is set to done.
C4_EmptyCommitSetSkipped ==
  ResolvedCommitSet = <<>> =>
    \A n \in DOMAIN log :
      ~Branched(log[n]) /\ ~log[n].pushed /\ log[n].created = None
      /\ log[n].updated = {}

\* C5: a failure of clone, branch creation or push ends the invocation with
\* None: create_pull_request is not called, and no marker is set to done.
C5_GitFailureEndsTarget ==
  \A n \in DOMAIN log :
    log[n].failed \in {"clone", "branch", "push"} =>
      /\ log[n].returned /\ log[n].result = None
      /\ ~log[n].create_called /\ log[n].created = None
      /\ log[n].updated = {}
      /\ (n = Len(log) /\ pc = "returned") => backport_pr = None

\* C5 witness: a push failed and main is through with the Target
C5_Witness ==
  \E n \in DOMAIN log :
    log[n].failed = "push" /\ log[n].finished /\ log[n].attempted # <<>>

\* C6: once main is through with a Target whose review request was created,
\* the marker is no longer on the Change and its done variant is on the Change
\* and on the new review request.
C6_MarkersDoneOnBoth ==
  (log # <<>> /\ Current.finished /\ Current.created # None) =>
    /\ ~HasLabel(change.number, Current.label)
    /\ HasLabel(change.number, done_label(Current.label))
    /\ HasLabel(Current.created, done_label(Current.label))

\* the first run produced the review request of the Target of `label` and set
\* the marker of the Change to done
FirstRunSucceeded(label) ==
  \E m \in DOMAIN log :
    /\ log[m].run = 1 /\ log[m].label = label
    /\ log[m].result # None /\ change.number \in log[m].updated

\* the review requests of the Change for the Target of `label`
PullsOf(label) ==
  {q \in pulls : q.head = new_branch_name(change, replace_backport(label, <<>>))}

VersionOf(label) == version_parse(SubSeq(label, 2, Len(label)))
NumericallyGreater(a, b) ==
  \/ VersionOf(a)[1] > VersionOf(b)[1]
  \/ (VersionOf(a)[1] = VersionOf(b)[1] /\ VersionOf(a)[2] > VersionOf(b)[2])

IsPermutation(s, t) ==
  /\ Len(s) = Len(t)
  /\ \A x \in Range(s) \cup Range(t) :
       Cardinality({j \in 1..Len(s) : s[j] = x}) = Cardinality({j \in 1..Len(t) : t[j] = x})

\* C8: the plan of a Change is a permutation of its backport labels in strictly
\* descending numeric order of the versions, and backport() is invoked for the
\* Targets in the order of the plan.
C8_PlanSortedAndFollowed ==
  /\ (pc = "target" /\ i = 0) =>
       /\ \A a, b \in 1..Len(sorted_backport_labels) :
            a < b => NumericallyGreater(sorted_backport_labels[a], sorted_backport_labels[b])
       /\ IsPermutation(sorted_backport_labels, select_backport_labels(labels[closed_prs[p]]))
  /\ \A n \in DOMAIN log :
       /\ (n = 1 \/ ~SamePass(n - 1, n)) => log[n].i = 0
       /\ (n > 1 /\ SamePass(n - 1, n)) => log[n].i = log[n - 1].i + 1
       /\ (log[n].run = run /\ log[n].pos = p /\ pc \notin {"start", "next_pr", "done"})
            => /\ log[n].i < Len(sorted_backport_labels)
               /\ log[n].label = sorted_backport_labels[log[n].i + 1]
  /\ (pc = "next_pr" /\ sorted_backport_labels # <<>> /\ log # <<>>)
       => Current.i + 1 = Len(sorted_backport_labels)

\* C8 witness: the labels 5.2, 5.10, 5.4 were planned and processed as 5.10,
\* 5.4, 5.2
C8_Witness ==
  /\ sorted_backport_labels = <<BackportLabel(V510), BackportLabel(V54), BackportLabel(V52)>>
  /\ Len(log) >= 3
  /\ log[1].label = BackportLabel(V510) /\ log[2].label = BackportLabel(V54)
  /\ log[3].label = BackportLabel(V52) /\ log[3].finished

\* C10: no CommitSet handed to backport() holds an identifier twice.
C10_NoDuplicateIdentifiers == \A n \in DOMAIN log : NoDup(log[n].input)

\* no two commits of the Change have the same first line
TitlesDistinct(cs) ==
  \A a, b \in 1..Len(cs) :
    a # b => FirstLine(cs[a].message) # FirstLine(cs[b].message)

\* C9: for a Change merged without a merge commit whose commits have distinct
\* first lines, get_pr_commits returns one identifier per commit of the Change,
\* that of its promoted commit, in the order of the Change.
C9_OnePerAuthoredCommit ==
  (pc = "resolved" /\ change.merged /\ change.parents = 1
     /\ TitlesDistinct(change.commits)) =>
    /\ Len(commits) = Len(change.commits)
    /\ \A j \in 1..Len(commits) :
         \E h \in 1..Len(history) :
           history[h].sha = commits[j] /\ history[h].message = change.commits[j].message

\* C11: for a merged Change whose merge commit has more than one parent,
\* get_pr_commits returns exactly one identifier, that of the merge commit,
\* whatever the commits of the Change and the promotion window are.
C11_MergeCommitAlone ==
  (pc = "resolved" /\ change.merged /\ change.parents > 1) =>
    commits = <<change.merge_commit_sha>>

\* C11 witness: a Change of two commits, merged with a merge commit, resolved
\* against a stable branch on which its titles match promoted commits
C11_Witness ==
  /\ pc = "resolved" /\ change.merged /\ change.parents > 1
  /\ Len(change.commits) = 2
  /\ ResolveByTitle(change.commits, promoted_window(history, args.start_commit)) # <<>>
  /\ commits = <<change.merge_commit_sha>>

\* the priority labels a pull request carries
PriorityOf(n) == {l \in {"P0", "P1"} : HasLabel(n, <<l>>)}

\* C12: whatever labels the Change carries, P0 and P1 together included, no
\* new review request carries more than one of P0 and P1.
C12_AtMostOnePriority ==
  \A n \in DOMAIN labels : n # change.number => Cardinality(PriorityOf(n)) <= 1

\* C12 witness: the Change carries P0 and P1, and a review request created
\* for it carries one of them
C12_Witness ==
  /\ PriorityOf(change.number) = {"P0", "P1"}
  /\ \E n \in DOMAIN labels : n # change.number /\ Cardinality(PriorityOf(n)) = 1

\* the priority label of the highest priority among those pull request n carries
HighestPriority(n) == IF HasLabel(n, <<"P0">>) THEN "P0" ELSE "P1"

\* C13: a review request that create_pull_request returned for a Change
\* carrying P0 or P1 carries the highest of the Change's priority labels (P0
\* when both are present) and no other, together with force_on_cloud.
C13_HighestPriorityPropagated ==
  \A n \in DOMAIN log :
    (log[n].result # None /\ PriorityOf(change.number) # {}) =>
      /\ PriorityOf(log[n].result) = {HighestPriority(change.number)}
      /\ HasLabel(log[n].result, <<"force_on_cloud">>)

\* the invocation of backport() that created review request q
CreatedBy(q) == CHOOSE n \in DOMAIN log : log[n].created = q.number

\* review request q is a draft, carries "conflicts" and has the comment
MarkedConflicting(q) ==
  /\ q.draft
  /\ HasLabel(q.number, <<"conflicts">>)
  /\ q.comment

\* review request q is no draft, carries no "conflicts" and has no comment
MarkedClean(q) ==
  /\ ~q.draft
  /\ ~HasLabel(q.number, <<"conflicts">>)
  /\ ~q.comment

InBackport == pc \in {"clone", "checkout", "pick", "create"}

\* C15: the temporary directory of backport() exists only while control is
\* inside backport(): there is never more than one, and none is left when
\* backport() has returned, by whichever path, or when the next Target or
\* Change starts.
C15_WorkingCopyRemoved ==
  /\ workdirs \in {0, 1}
  /\ InBackport => workdirs = 1
  /\ ~InBackport => workdirs = 0

\* C15 witness: after an invocation that a git error ended and one that
\* returned a review request, a further invocation is under way in the only
\* temporary directory
C15_Witness ==
  /\ InBackport /\ workdirs = 1
  /\ \E a, b \in 1..(Len(log) - 1) :
       /\ log[a].failed # "none" /\ log[a].returned
       /\ log[b].result # None

\* the backport labels the Change carried at the start, and the version of one
OriginalMarkers == SelectSeq(original_labels, backport_label_pattern)
VersionTokens(label) == Tail(label)

\* review request q is the backport of the Change to the version of `label`
IsBackportTo(q, label) ==
  /\ q.base = <<"next-">> \o VersionTokens(label)
  /\ q.head = [number |-> change.number, to |-> VersionTokens(label)]
  /\ q.title = <<"[Backport ", VersionTokens(label), "] ", change.title>>
  /\ q.parent = change.number

\* the script has ended, no git or platform call having failed, for a promoted
\* Change with commits to backport and the plan taken from its labels
EndedWithoutFailure ==
  /\ pc = "done" /\ run = 1 /\ faults = 0
  /\ args.label = <<>>
  /\ promoted_label \in Range(original_labels)
  /\ ResolvedCommitSet # <<>>

Override == args.pull_request # None /\ args.label # <<>>

\* the Change is one the coordinator must not process
NotToProcess ==
  \/ (args.pull_request = None /\ promoted_label \notin Range(original_labels))
  \/ (~Override /\ \A l \in Range(original_labels) : ~backport_label_pattern(l))

\* C17: for a Change without the promoted label in commit-range mode, or
\* without a backport label to process, nothing is replayed, pushed, requested
\* or relabelled; with --pull-request a Change without the promoted label is
\* processed all the same; with --pull-request and --label the plan is that one
\* label, and without --label it is made of labels of the Change.
C17_Filter ==
  /\ NotToProcess =>
       /\ log = <<>>
       /\ pulls = {} /\ fork = {}
       /\ labels = [n \in {change.number} |-> original_labels]
  /\ (pc = "done" /\ ~NotToProcess) => log # <<>>
  /\ \A n \in DOMAIN log :
       IF Override THEN log[n].label = args.label /\ log[n].i = 0
       ELSE log[n].label \in Range(original_labels)
              /\ backport_label_pattern(log[n].label)
  /\ (Override /\ sorted_backport_labels # <<>>) => sorted_backport_labels = <<args.label>>

\* C17 witness: --pull-request with --label for a Change that carries neither
\* the promoted label nor that label; a review request was returned
C17_Witness ==
  /\ Override
  /\ promoted_label \notin Range(original_labels)
  /\ args.label \notin Range(original_labels)
  /\ OriginalMarkers # <<>>
  /\ log # <<>> /\ log[1].result # None /\ log[1].finished

\* the update of the label of invocation e failed on the Change
UpdateFailedOnChange(e) ==
  e.finished /\ e.result # None /\ change.number \notin e.updated

\* C18: whatever update_backport_label achieves on either pull request, it
\* tries both, the review request becomes previous_backport_pr, and main goes on
\* with the next Target of the plan, whose commits are those of that review
\* request.
C18_UpdateFailureDoesNotStop ==
  \A n \in DOMAIN log :
    (log[n].finished /\ log[n].result # None) =>
      /\ log[n].tried = {change.number, log[n].result}
      /\ (n = Len(log) /\ log[n].run = run /\ log[n].pos = p /\ pc = "target") =>
           /\ previous_backport_pr = log[n].result
           /\ i = log[n].i + 1
      /\ (n = Len(log) /\ log[n].run = run /\ log[n].pos + 1 = p /\ pc = "next_pr") =>
           log[n].i + 1 = Len(sorted_backport_labels)
      /\ (n < Len(log) /\ SamePass(n, n + 1)) =>
           /\ log[n + 1].i = log[n].i + 1
           /\ log[n + 1].previous = log[n].result

\* C18 witness: the update of the label failed on the Change, and the next
\* Target was replayed from the review request of the failed update
C18_Witness ==
  \E n \in DOMAIN log :
    /\ UpdateFailedOnChange(log[n])
    /\ n < Len(log) /\ SamePass(n, n + 1)
    /\ log[n + 1].previous = log[n].result
    /\ log[n + 1].input = PullCommits(log[n].result)
    /\ log[n + 1].pushed

\* invocation e ran a cherry-pick or asked for a review request
Replayed(e) == e.attempted # <<>> \/ e.create_called

\* C19: within one invocation of the script in commit-range mode the Change
\* (one that has commits to backport) is processed in one pass only, and for no
\* Target of the Change are commits replayed or a review request asked for
\* twice.
C19_OncePerRun ==
  (args.pull_request = None /\ ResolvedCommitSet # <<>>) =>
    \A a, b \in DOMAIN log :
      (a # b /\ log[a].run = log[b].run) =>
        /\ log[a].pos = log[b].pos
        /\ ~(log[a].label = log[b].label /\ Replayed(log[a]) /\ Replayed(log[b]))

\* C20: an invocation of backport() in which the platform created a review
\* request returns that review request, also when a later call on it raised.
C20_CreatedIsReturned ==
  \A n \in DOMAIN log :
    (log[n].returned /\ log[n].created # None) => log[n].result = log[n].created

====
